---- MODULE Spec2Model ----
(***************************************************************************)
(* Worker node of the peer-replicated collaborative editor                 *)
(* (src/worker/worker.go): the linked-list CRDT of each session, the       *)
(* insert resolver, the local edit buffer, the push cycle and the merge    *)
(* of inbound batches, the RPC mesh and the session bootstrap.             *)
(*                                                                         *)
(* Strings that the code converts with strconv (operation identifiers,     *)
(* client identifiers, the sentinel) are sequences of decimal digits, so   *)
(* that Itoa, Atoi and the concatenation of addRight are computed and not  *)
(* assumed.  The empty string is the empty sequence.                       *)
(*                                                                         *)
(* The console's position (worker prompt or session prompt) is not part of *)
(* the state: a command is taken with the session it would be typed in.    *)
(***************************************************************************)
EXTENDS Integers, Sequences, FiniteSets, TLC

\* ------------------------------------------------------------------ bounds
\* The worker processes of the model; a worker's address in the mesh and its
\* workerID (handed out by the load balancer) are both its number here.
WorkerIDs == {1, 2, 3}
\* The session identifiers newSession can draw.
Sessions == {"s1", "s2"}
\* The characters a local insert can carry.
Texts == {"a", "b"}
\* Local inserts (addRight calls that reach addToCRDT) and getSession
\* commands in one run of Spec.
MaxInserts == 2
MaxGets == 1
\* Local inserts in one run of SpecMesh.
MaxInsertsMesh == 1
\* Local inserts and getSession commands in one run of SpecRelay.
MaxInsertsRelay == 2
MaxGetsRelay == 2
\* Local inserts in one run of SpecRace, and ApplyIncomingOps calls a worker
\* serves at the same time.
MaxInsertsRace == 1
MaxCallsRace == 2
MaxInsertsMint == 1234
MaxInsertsChain == 3
\* getSession commands in one run of SpecFetch.
MaxGetsFetch == 2
\* Elements a document can come to hold in one run of SpecMerge.
MaxMergeElems == 3

\* MinNumWorkerConnections of the settings the load balancer returns.
MinNumWorkerConnections == 2

\* ----------------------------------------------------------------- strconv
\* strconv.Itoa for n >= 0: the decimal digits of n, most significant first.
RECURSIVE Itoa(_)
Itoa(n) == IF n < 10 THEN <<n>> ELSE Itoa(n \div 10) \o <<n % 10>>

\* strconv.Atoi with the error dropped (nextOpID, _ = strconv.Atoi(..)): the
\* value of a digit string, 0 for the empty string.
RECURSIVE Atoi(_)
Atoi(s) == IF s = <<>> THEN 0 ELSE Atoi(SubSeq(s, 1, Len(s) - 1)) * 10 + s[Len(s)]

\* const INITIAL_ID string = "12345"
INITIAL_ID == <<1, 2, 3, 4, 5>>

\* ------------------------------------------------------------------- types
\* &Element{sessionID, clientID, false, opID, prevID, "", content}
Element(sessionID, clientID, id, prevID, nextID, text) ==
    [SessionID |-> sessionID, ClientID |-> clientID, Deleted |-> FALSE,
     ID |-> id, PrevID |-> prevID, NextID |-> nextID, Text |-> text]

\* &CRDT{make(map[string]*Element), "", 1}
EmptyCRDT == [Elements |-> <<>>, CrdtFirstID |-> <<>>, NextOpNumber |-> 1]

\* crdt.Elements[key] = el
MapPut(m, key, el) == [k \in (DOMAIN m) \cup {key} |-> IF k = key THEN el ELSE m[k]]

\* A call has one of three outcomes: "ok", it returned; "panic", it
\* dereferenced a nil *Element and the process died of it (net/rpc does not
\* recover); "hang", its loop never ends.

\* ---------------------------------------------------------- insert resolver
\* firstCRDTEntry that leaves the first identifier alone.
firstCRDTEntry_KeepsFirst(opID, crdt) ==
    IF Cardinality(DOMAIN crdt.Elements) <= 0
    THEN [ret |-> TRUE, crdt |-> crdt]
    ELSE [ret |-> FALSE, crdt |-> crdt]

\* firstCRDTEntry: the document has no elements, the new element is first.
firstCRDTEntry(opID, crdt) ==
    IF Cardinality(DOMAIN crdt.Elements) <= 0
    THEN [ret |-> TRUE, crdt |-> [crdt EXCEPT !.CrdtFirstID = opID]]
    ELSE [ret |-> FALSE, crdt |-> crdt]

\* replacingFirstOp that leaves the old first element's back link alone.
replacingFirstOp_NoBackLink(newElement, prevID, opID, crdt) ==
    IF prevID = INITIAL_ID
    THEN IF crdt.CrdtFirstID \notin DOMAIN crdt.Elements
         THEN [ret |-> TRUE, outcome |-> "panic", crdt |-> crdt,
               newElement |-> [newElement EXCEPT !.NextID = crdt.CrdtFirstID]]
         ELSE [ret |-> TRUE, outcome |-> "ok",
               crdt |-> [crdt EXCEPT !.CrdtFirstID = opID],
               newElement |-> [newElement EXCEPT !.NextID = crdt.CrdtFirstID]]
    ELSE [ret |-> FALSE, outcome |-> "ok", crdt |-> crdt, newElement |-> newElement]

\* replacingFirstOp: an insert at the sentinel becomes the new first element.
\* firstOp.PrevID = opID dereferences firstOp, nil when CrdtFirstID is no key.
replacingFirstOp(newElement, prevID, opID, crdt) ==
    IF prevID = INITIAL_ID
    THEN IF crdt.CrdtFirstID \notin DOMAIN crdt.Elements
         THEN [ret |-> TRUE, outcome |-> "panic", crdt |-> crdt,
               newElement |-> [newElement EXCEPT !.NextID = crdt.CrdtFirstID]]
         ELSE [ret |-> TRUE, outcome |-> "ok",
               crdt |-> [crdt EXCEPT !.Elements[crdt.CrdtFirstID].PrevID = opID,
                                     !.CrdtFirstID = opID],
               newElement |-> [newElement EXCEPT !.NextID = crdt.CrdtFirstID]]
    ELSE [ret |-> FALSE, outcome |-> "ok", crdt |-> crdt, newElement |-> newElement]

\* The loop without the comparison of identifiers: it moves on whenever the
\* successor is another client's.
RECURSIVE samePlaceWalk_NoCompare(_, _, _, _, _, _)
samePlaceWalk_NoCompare(prevOp, nextOpID, newOpID, newElement, crdt, fuel) ==
    IF prevOp.NextID \notin DOMAIN crdt.Elements
    THEN [outcome |-> "ok", ret |-> prevOp.ID]
    ELSE IF newElement.ClientID # crdt.Elements[prevOp.NextID].ClientID
         THEN IF fuel = 0
              THEN [outcome |-> "hang", ret |-> <<>>]
              ELSE samePlaceWalk_NoCompare(crdt.Elements[prevOp.NextID],
                                           Atoi(crdt.Elements[prevOp.NextID].NextID),
                                           newOpID, newElement, crdt, fuel - 1)
         ELSE [outcome |-> "ok", ret |-> prevOp.ID]

\* The loop without the comparison of client identifiers: it moves on
\* whenever the successor's identifier is not below the new one.
RECURSIVE samePlaceWalk_NoClientTest(_, _, _, _, _, _)
samePlaceWalk_NoClientTest(prevOp, nextOpID, newOpID, newElement, crdt, fuel) ==
    IF nextOpID >= newOpID
    THEN IF Itoa(nextOpID) \notin DOMAIN crdt.Elements
         THEN [outcome |-> "panic", ret |-> <<>>]
         ELSE IF fuel = 0
              THEN [outcome |-> "hang", ret |-> <<>>]
              ELSE samePlaceWalk_NoClientTest(crdt.Elements[Itoa(nextOpID)],
                                              Atoi(crdt.Elements[Itoa(nextOpID)].NextID),
                                              newOpID, newElement, crdt, fuel - 1)
    ELSE [outcome |-> "ok", ret |-> prevOp.ID]

\* The for loop of samePlaceInsertCheck from the state (prevOp, nextOpID).
\* The loop state is prevOp alone once it has moved, so a walk of more steps
\* than there are elements never ends.
RECURSIVE samePlaceWalk(_, _, _, _, _, _)
samePlaceWalk(prevOp, nextOpID, newOpID, newElement, crdt, fuel) ==
    IF nextOpID >= newOpID
    THEN IF prevOp.NextID \notin DOMAIN crdt.Elements
         THEN [outcome |-> "panic", ret |-> <<>>]
         ELSE IF newElement.ClientID # crdt.Elements[prevOp.NextID].ClientID
              THEN IF Itoa(nextOpID) \notin DOMAIN crdt.Elements
                   THEN [outcome |-> "panic", ret |-> <<>>]
                   ELSE IF fuel = 0
                        THEN [outcome |-> "hang", ret |-> <<>>]
                        ELSE samePlaceWalk(crdt.Elements[Itoa(nextOpID)],
                                           Atoi(crdt.Elements[Itoa(nextOpID)].NextID),
                                           newOpID, newElement, crdt, fuel - 1)
              ELSE [outcome |-> "ok", ret |-> prevOp.ID]
    ELSE [outcome |-> "ok", ret |-> prevOp.ID]

\* samePlaceInsertCheck: the anchor after the walk over concurrent inserts.
samePlaceInsertCheck(newElement, prevID, opID, crdt) ==
    IF prevID \notin DOMAIN crdt.Elements
    THEN [outcome |-> "panic", ret |-> <<>>]
    ELSE IF crdt.Elements[prevID].NextID # <<>>
         THEN samePlaceWalk(crdt.Elements[prevID], Atoi(crdt.Elements[prevID].NextID),
                            Atoi(opID), newElement, crdt,
                            Cardinality(DOMAIN crdt.Elements))
         ELSE [outcome |-> "ok", ret |-> prevID]

\* normalInsert: splice the new element after the anchor.
normalInsert(newElement, prevID, opID, crdt) ==
    LET chk == samePlaceInsertCheck(newElement, prevID, opID, crdt)
        newPrevID == chk.ret
    IN  IF chk.outcome # "ok"
        THEN [outcome |-> chk.outcome, crdt |-> crdt, newElement |-> newElement]
        ELSE IF newPrevID \notin DOMAIN crdt.Elements
        THEN [outcome |-> "panic", crdt |-> crdt, newElement |-> newElement]
        ELSE [outcome |-> "ok",
              crdt |-> [crdt EXCEPT !.Elements[newPrevID].NextID = opID],
              newElement |-> [newElement EXCEPT !.NextID = crdt.Elements[newPrevID].NextID]]

\* addOpAndIncrementCounter: store a copy, append it to localOps, count.
addOpAndIncrementCounter(newElement, opID, crdt, localOps) ==
    [crdt |-> [crdt EXCEPT !.Elements = MapPut(crdt.Elements, opID, newElement),
                           !.NextOpNumber = crdt.NextOpNumber + 1],
     localOps |-> Append(localOps, newElement)]

\* addToCRDT: the three cases in order, then the store.
addToCRDT(newElement, crdt, localOps) ==
    LET first == firstCRDTEntry(newElement.ID, crdt)
        repl  == replacingFirstOp(newElement, newElement.PrevID, newElement.ID, crdt)
        norm  == normalInsert(newElement, newElement.PrevID, newElement.ID, crdt)
        done(el, c) == addOpAndIncrementCounter(el, newElement.ID, c, localOps)
    IN  IF first.ret
        THEN [outcome |-> "ok"] @@ done(newElement, first.crdt)
        ELSE IF repl.ret
        THEN IF repl.outcome = "ok"
             THEN [outcome |-> "ok"] @@ done(repl.newElement, repl.crdt)
             ELSE [outcome |-> repl.outcome, crdt |-> crdt, localOps |-> localOps]
        ELSE IF norm.outcome = "ok"
             THEN [outcome |-> "ok"] @@ done(norm.newElement, norm.crdt)
             ELSE [outcome |-> norm.outcome, crdt |-> crdt, localOps |-> localOps]

\* getMessage: the texts along NextID from CrdtFirstID; the loop ends at the
\* first identifier that is no key.  A walk longer than the number of
\* elements is in a cycle and never ends.
RECURSIVE getMessageFrom(_, _, _)
getMessageFrom(id, crdt, fuel) ==
    IF id \notin DOMAIN crdt.Elements THEN [outcome |-> "ok", text |-> <<>>]
    ELSE IF fuel = 0 THEN [outcome |-> "hang", text |-> <<>>]
    ELSE LET rest == getMessageFrom(crdt.Elements[id].NextID, crdt, fuel - 1)
         IN  [outcome |-> rest.outcome, text |-> <<crdt.Elements[id].Text>> \o rest.text]

getMessage(crdt) == getMessageFrom(crdt.CrdtFirstID, crdt, Cardinality(DOMAIN crdt.Elements))

\* ------------------------------------------------------------------- state
VARIABLES
    status,    \* per worker: "new", "registered" (listening, known to the load
               \* balancer), "running" (getWorkers done, console and push loop
               \* started), "crashed" (the process died of a panic)
    workers,   \* w.workers: the addresses a worker holds a connection to
    crdt,      \* w.crdt: per worker, session identifier -> document
    localOps,  \* w.localOps: the local edit buffer
    stuck,     \* per worker, the goroutines ("console", "push") that sit in a
               \* call that never returns
    nAdd,      \* local inserts made so far (bounds the run)
    nGet,      \* getSession commands made so far (bounds the run)
    trace,     \* what the last handler did: one record per call and per
               \* operation it applied, with the documents before and after
    delivered, \* per worker and session held: the document the replica
               \* started from (base) and the operations handed to it since
               \* (ops), by addRight or by ApplyIncomingOps
    inFlight   \* per worker, the goroutines that are inside a handler: cycle
               \* is <<batch>> while the push cycle is between the capture of
               \* its batch and the clear of the buffer, <<>> otherwise;
               \* checked are the operations of the ApplyIncomingOps calls
               \* that have passed the test for a known identifier and have
               \* not yet called addToCRDT

vars == <<status, workers, crdt, localOps, stuck, nAdd, nGet, trace, delivered, inFlight>>

\* The process runs: it serves RPC (listenRPC precedes registerWithLB).
Alive(w) == status[w] \in {"registered", "running"}

\* w.crdt[sessionID] != nil
Holds(w, s) == s \in DOMAIN crdt[w]

\* w.crdt[sessionID] = doc
SetDoc(m, s, doc) == [k \in (DOMAIN m) \cup {s} |-> IF k = s THEN doc ELSE m[k]]

Init ==
    /\ status = [w \in WorkerIDs |-> "new"]
    /\ workers = [w \in WorkerIDs |-> {}]
    /\ crdt = [w \in WorkerIDs |-> <<>>]
    /\ localOps = [w \in WorkerIDs |-> <<>>]
    /\ stuck = [w \in WorkerIDs |-> {}]
    /\ nAdd = 0
    /\ nGet = 0
    /\ trace = <<>>
    /\ delivered = [w \in WorkerIDs |-> <<>>]
    /\ inFlight = [w \in WorkerIDs |-> [cycle |-> <<>>, checked |-> <<>>]]

\* ------------------------------------------------------------------- merge
\* The trace record of one operation handed to a replica, by the merge of a
\* batch or by addRight (via).
OpEvent(via, w, op, held, pre, post, result) ==
    [kind |-> "op", via |-> via, w |-> w, op |-> op, held |-> held,
     pre |-> pre, post |-> post, result |-> result]

\* w.addToCRDT(&op, crdt) in the range loop, r being what addToCRDT gives.
ApplyAdd(w, op, m, ops, ev, r) ==
    IF r.outcome = "ok"
    THEN [outcome |-> "ok", crdt |-> SetDoc(m, op.SessionID, r.crdt),
          localOps |-> r.localOps,
          events |-> Append(ev, OpEvent("ApplyIncomingOps", w, op, TRUE, m[op.SessionID], r.crdt, "ok"))]
    ELSE [outcome |-> r.outcome, crdt |-> m, localOps |-> ops,
          events |-> Append(ev, OpEvent("ApplyIncomingOps", w, op, TRUE, m[op.SessionID],
                                        m[op.SessionID], r.outcome))]

\* The loop body that opens a document for a session not held.
ApplyOne_OpensSession(w, op, m, ops, ev) ==
    IF op.SessionID \notin DOMAIN m
    THEN ApplyAdd(w, op, SetDoc(m, op.SessionID, EmptyCRDT), ops, ev,
                  addToCRDT(op, EmptyCRDT, ops))
    ELSE IF op.ID \in DOMAIN m[op.SessionID].Elements
    THEN [outcome |-> "ok", crdt |-> m, localOps |-> ops,
          events |-> Append(ev, OpEvent("ApplyIncomingOps", w, op, TRUE, m[op.SessionID],
                                        m[op.SessionID], "skipped"))]
    ELSE ApplyAdd(w, op, m, ops, ev, addToCRDT(op, m[op.SessionID], ops))

\* The loop body without the test for an identifier already held.
ApplyOne_NoDedupe(w, op, m, ops, ev) ==
    IF op.SessionID \notin DOMAIN m
    THEN [outcome |-> "ok", crdt |-> m, localOps |-> ops,
          events |-> Append(ev, OpEvent("ApplyIncomingOps", w, op, FALSE, EmptyCRDT, EmptyCRDT, "nosession"))]
    ELSE ApplyAdd(w, op, m, ops, ev, addToCRDT(op, m[op.SessionID], ops))

\* The body of the range loop of ApplyIncomingOps for one operation, on the
\* worker's documents m and buffer ops: an operation of a session not held is
\* passed over, so is one whose identifier is a key; any other is added.
ApplyOne(w, op, m, ops, ev) ==
    IF op.SessionID \notin DOMAIN m
    THEN [outcome |-> "ok", crdt |-> m, localOps |-> ops,
          events |-> Append(ev, OpEvent("ApplyIncomingOps", w, op, FALSE, EmptyCRDT, EmptyCRDT, "nosession"))]
    ELSE IF op.ID \in DOMAIN m[op.SessionID].Elements
    THEN [outcome |-> "ok", crdt |-> m, localOps |-> ops,
          events |-> Append(ev, OpEvent("ApplyIncomingOps", w, op, TRUE, m[op.SessionID],
                                        m[op.SessionID], "skipped"))]
    ELSE ApplyAdd(w, op, m, ops, ev, addToCRDT(op, m[op.SessionID], ops))

\* The range loop of ApplyIncomingOps from operation i on, st being the
\* worker's state after operation i - 1.  A panic or an endless loop ends it
\* where it stands.
RECURSIVE ApplyFrom(_, _, _, _)
ApplyFrom(w, incomingOps, i, st) ==
    IF st.outcome # "ok" \/ i > Len(incomingOps)
    THEN st
    ELSE ApplyFrom(w, incomingOps, i + 1,
                   ApplyOne(w, incomingOps[i], st.crdt, st.localOps, st.events))

\* The result of a call with the record of the call put before the records
\* of its operations.
CallResult(w, incomingOps, r) ==
    [outcome |-> r.outcome, crdt |-> r.crdt, localOps |-> r.localOps,
     events |-> <<[kind |-> "ApplyIncomingOps", w |-> w, batch |-> incomingOps,
                   preCrdt |-> crdt[w], postCrdt |-> r.crdt,
                   outcome |-> r.outcome]>> \o r.events]

\* ApplyIncomingOps on worker w: the RPC handler, run to its end, to the panic
\* that kills the process, or to the loop it never leaves.
ApplyIncomingOps(w, incomingOps) ==
    CallResult(w, incomingOps,
               ApplyFrom(w, incomingOps, 1,
                         [outcome |-> "ok", crdt |-> crdt[w],
                          localOps |-> localOps[w], events |-> <<>>]))

\* ----------------------------------------------------------------- history
\* An operation as the replicas exchange it: the element without the NextID
\* link, which each replica sets for itself.
OpOf(el) == [SessionID |-> el.SessionID, ClientID |-> el.ClientID, ID |-> el.ID,
             PrevID |-> el.PrevID, Text |-> el.Text]

\* The operations of session s that the records tr hand to worker w.
OpsIn(tr, w, s) ==
    {OpOf(tr[i].op) : i \in {j \in DOMAIN tr : tr[j].kind = "op" /\ tr[j].held
                                               /\ tr[j].w = w /\ tr[j].op.SessionID = s}}

\* delivered after a step with records tr that leaves the documents newCrdt:
\* a session installed by newSession or getSession starts afresh from the
\* installed document; operations handed to a held session are added (a
\* session with no history so far has that of an empty document).
Deliver(tr, newCrdt) ==
    [w \in WorkerIDs |->
        [s \in DOMAIN newCrdt[w] |->
            IF \E i \in DOMAIN tr :
                   /\ tr[i].kind \in {"newSession", "getSession"}
                   /\ tr[i].w = w /\ tr[i].sessionID = s
                   /\ (tr[i].kind = "getSession" => tr[i].src # 0)
            THEN [base |-> newCrdt[w][s], ops |-> {}]
            ELSE IF s \in DOMAIN delivered[w]
            THEN [base |-> delivered[w][s].base,
                  ops |-> delivered[w][s].ops \cup OpsIn(tr, w, s)]
            ELSE [base |-> EmptyCRDT, ops |-> OpsIn(tr, w, s)]]]

\* -------------------------------------------------------------------- mesh
\* registerWithLB: the worker, already listening, becomes known to the load
\* balancer and gets its workerID and settings.
registerWithLB(w) ==
    /\ status[w] = "new"
    /\ status' = [status EXCEPT ![w] = "registered"]
    /\ trace' = <<[kind |-> "registerWithLB", w |-> w]>>
    /\ UNCHANGED <<workers, crdt, localOps, stuck, nAdd, nGet, delivered, inFlight>>

\* BidirectionalSetup that keeps the caller's address when the dial fails.
BidirectionalSetup_KeepsOnFailure(q, workerAddr, dialed) ==
    IF dialed THEN workers[q] \cup {workerAddr} ELSE workers[q]

\* BidirectionalSetup on worker q for the caller's address: q's peer map after
\* the dial back, which succeeded (dialed) or failed.
BidirectionalSetup(q, workerAddr, dialed) ==
    IF dialed THEN workers[q] \cup {workerAddr} ELSE workers[q] \ {workerAddr}

\* connectToWorkers(addrs) on worker w whose peer map is cur: fwd are the
\* addresses whose dial succeeded, called those whose BidirectionalSetup call
\* got through, back those that dialed w back with success.  The peer maps of
\* all workers afterwards (the delete after a failed dial removes an address
\* that is not in the map).
connectToWorkers(w, cur, addrs, fwd, called, back) ==
    [q \in WorkerIDs |->
        IF q = w THEN cur \cup fwd
        ELSE IF q \in called THEN BidirectionalSetup(q, w, q \in back)
        ELSE workers[q]]

\* The peers of w whose process runs: those that can answer a call.
LivePeers(w) == {p \in workers[w] : Alive(p)}

\* The addresses LBServer.GetNodes can return to w: registered workers.
Registered(w) == {a \in WorkerIDs \ {w} : status[a] # "new"}

\* The addresses connectToWorkers dials (not yet in the map) and can reach.
Dialable(cur, addrs) == {a \in addrs : a \notin cur /\ Alive(a)}

\* getWorkers, called once from main before the console starts: ping the
\* peers held, drop those that do not answer (answered are those that do),
\* and below the minimum ask the load balancer for addresses (addrSet) and
\* connect to them.
getWorkers(w, answered, addrSet, fwd, called, back) ==
    /\ status[w] = "registered"
    /\ answered \subseteq LivePeers(w)
    /\ IF Cardinality(answered) < MinNumWorkerConnections
       THEN /\ addrSet \subseteq Registered(w)
            /\ fwd \subseteq Dialable(answered, addrSet)
            /\ called \subseteq fwd
            /\ back \subseteq called
            /\ workers' = connectToWorkers(w, answered, addrSet, fwd, called, back)
            /\ trace' = <<[kind |-> "connectToWorkers", w |-> w, addrs |-> addrSet,
                           fwd |-> fwd, called |-> called, back |-> back]>>
       ELSE /\ addrSet = {} /\ fwd = {} /\ called = {} /\ back = {}
            /\ workers' = [workers EXCEPT ![w] = answered]
            /\ trace' = <<[kind |-> "getWorkers", w |-> w]>>
    /\ status' = [status EXCEPT ![w] = "running"]
    /\ UNCHANGED <<crdt, localOps, stuck, nAdd, nGet, delivered, inFlight>>

\* ----------------------------------------------------------------- console
\* newSession: String(5) draws a session identifier; the model draws one no
\* worker holds.
newSession(w, sessionID) ==
    /\ status[w] = "running"
    /\ "console" \notin stuck[w]
    /\ \A v \in WorkerIDs : ~Holds(v, sessionID)
    /\ crdt' = [crdt EXCEPT ![w] = SetDoc(crdt[w], sessionID, EmptyCRDT)]
    /\ trace' = <<[kind |-> "newSession", w |-> w, sessionID |-> sessionID]>>
    /\ delivered' = Deliver(trace', crdt')
    /\ UNCHANGED <<status, workers, localOps, stuck, nAdd, nGet, inFlight>>

\* SendCRDT that answers with an empty document for a session not held.
SendCRDT_Fabricates(p, sessionID) ==
    IF ~Holds(p, sessionID)
    THEN [err |-> FALSE, payload |-> EmptyCRDT]
    ELSE [err |-> FALSE, payload |-> crdt[p][sessionID]]

\* SendCRDT on worker p: the snapshot, or the NoCRDTError.
SendCRDT(p, sessionID) ==
    IF ~Holds(p, sessionID)
    THEN [err |-> TRUE, payload |-> EmptyCRDT]
    ELSE [err |-> FALSE, payload |-> crdt[p][sessionID]]

\* The peers whose SendCRDT call comes back without error.
Suppliers(w, sessionID) == {p \in LivePeers(w) : ~SendCRDT(p, sessionID).err}

\* getSession: ask the peers in map order (any order); the first call that
\* comes back without error installs its payload: src is that peer, or 0
\* when no call comes back without error.
getSession(w, sessionID, src) ==
    /\ status[w] = "running"
    /\ "console" \notin stuck[w]
    /\ src \in Suppliers(w, sessionID) \cup {0}
    /\ crdt' = IF src = 0 THEN crdt
               ELSE [crdt EXCEPT ![w] = SetDoc(crdt[w], sessionID,
                                               SendCRDT(src, sessionID).payload)]
    /\ trace' = <<[kind |-> "getSession", w |-> w, sessionID |-> sessionID,
                   src |-> src, preCrdt |-> crdt[w]]>>
    /\ delivered' = Deliver(trace', crdt')
    /\ nGet' = nGet + 1
    /\ UNCHANGED <<status, workers, localOps, stuck, nAdd, inFlight>>

\* prevIDExists that tests the session alone.
prevIDExists_SessionOnly(w, prevID, sessionID) ==
    IF Holds(w, sessionID) THEN TRUE ELSE FALSE

\* prevIDExists: the session is held and prevID is a key or the sentinel.
prevIDExists(w, prevID, sessionID) ==
    IF Holds(w, sessionID)
    THEN IF prevID \in DOMAIN crdt[w][sessionID].Elements \/ prevID = INITIAL_ID
         THEN TRUE ELSE FALSE
    ELSE FALSE

\* A well-formed identifier that no worker of the model mints.
UnknownRefs == {<<9, 9>>}

\* The references the console user can name for a session: the elements on
\* the screen, the sentinel, or something else.
PrevChoices(w, sessionID) ==
    (IF Holds(w, sessionID) THEN DOMAIN crdt[w][sessionID].Elements ELSE {})
        \cup {INITIAL_ID} \cup UnknownRefs

\* addRight: the local insert.
addRight(w, prevID, content, sessionID) ==
    /\ status[w] = "running"
    /\ "console" \notin stuck[w]
    /\ IF ~prevIDExists(w, prevID, sessionID)
       THEN /\ trace' = <<[kind |-> "addRight", w |-> w, prevID |-> prevID,
                           sessionID |-> sessionID, held |-> Holds(w, sessionID),
                           preCrdt |-> crdt[w], preOps |-> localOps[w],
                           result |-> "rejected"]>>
            /\ UNCHANGED <<status, workers, crdt, localOps, stuck, nAdd, nGet,
                           delivered, inFlight>>
       ELSE LET doc == crdt[w][sessionID]
                opID == Itoa(doc.NextOpNumber) \o Itoa(w)
                newElement == Element(sessionID, Itoa(w), opID, prevID, <<>>, content)
                r == addToCRDT(newElement, doc, localOps[w])
            IN  /\ crdt' = [crdt EXCEPT ![w] = SetDoc(crdt[w], sessionID, r.crdt)]
                /\ localOps' = [localOps EXCEPT ![w] = r.localOps]
                /\ status' = IF r.outcome = "panic"
                             THEN [status EXCEPT ![w] = "crashed"] ELSE status
                /\ stuck' = IF r.outcome = "hang"
                            THEN [stuck EXCEPT ![w] = @ \cup {"console"}] ELSE stuck
                /\ nAdd' = nAdd + 1
                /\ trace' = <<[kind |-> "addRight", w |-> w, prevID |-> prevID,
                               sessionID |-> sessionID, held |-> TRUE,
                               preCrdt |-> crdt[w], preOps |-> localOps[w],
                               result |-> r.outcome],
                              OpEvent("addRight", w, newElement, TRUE, doc, r.crdt,
                                      r.outcome)>>
                /\ delivered' = Deliver(trace', crdt')
                /\ UNCHANGED <<workers, nGet, inFlight>>

\* --------------------------------------------------------------- push cycle
\* The trace records of the peers in ps, in ascending order of address; res
\* maps a peer to the result of its ApplyIncomingOps.
RECURSIVE EventsOf(_, _)
EventsOf(ps, res) ==
    IF ps = {} THEN <<>>
    ELSE LET p == CHOOSE x \in ps : \A y \in ps : x <= y
         IN  res[p].events \o EventsOf(ps \ {p}, res)

\* The cycle without the delete of a peer that does not answer the probe.
sendLocalOps_KeepsDead(w, answered) ==
    /\ status[w] = "running"
    /\ "push" \notin stuck[w]
    /\ answered \subseteq LivePeers(w)
    /\ \E res \in {[p \in answered |-> ApplyIncomingOps(p, localOps[w])]} :
       \E hung \in {{p \in answered : res[p].outcome = "hang"}} :
       \E h \in IF hung = {} THEN {0} ELSE hung :
       \E visited \in IF hung = {} THEN {workers[w]} ELSE SUBSET (workers[w] \ hung) :
       \E got \in {(visited \cap answered) \cup (hung \cap {h})} :
         /\ crdt' = [p \in WorkerIDs |-> IF p \in got THEN res[p].crdt ELSE crdt[p]]
         /\ status' = [p \in WorkerIDs |->
                         IF p \in got /\ res[p].outcome = "panic"
                         THEN "crashed" ELSE status[p]]
         /\ workers' = workers
         /\ localOps' = [p \in WorkerIDs |->
                           IF p = w /\ hung = {} THEN <<>>
                           ELSE IF p \in got THEN res[p].localOps
                           ELSE localOps[p]]
         /\ stuck' = IF hung = {} THEN stuck
                     ELSE [stuck EXCEPT ![w] = @ \cup {"push"}]
         /\ trace' = <<[kind |-> "sendLocalOps", w |-> w, batch |-> localOps[w],
                        peers |-> workers[w], answered |-> got]>>
                     \o EventsOf(got, res)
         /\ delivered' = Deliver(trace', crdt')
    /\ UNCHANGED <<nAdd, nGet, inFlight>>

\* One cycle of sendLocalOps on worker w.  answered are the peers that answer
\* the PingWorker probe.  The peers are visited in map order (any order); a
\* peer whose ApplyIncomingOps never returns blocks the cycle at that peer,
\* after the peers in visited and before all others.
sendLocalOps(w, answered) ==
    /\ status[w] = "running"
    /\ "push" \notin stuck[w]
    /\ answered \subseteq LivePeers(w)
    /\ \E res \in {[p \in answered |-> ApplyIncomingOps(p, localOps[w])]} :
       \E hung \in {{p \in answered : res[p].outcome = "hang"}} :
       \E h \in IF hung = {} THEN {0} ELSE hung :
       \E visited \in IF hung = {} THEN {workers[w]} ELSE SUBSET (workers[w] \ hung) :
       \E got \in {(visited \cap answered) \cup (hung \cap {h})} :
         /\ crdt' = [p \in WorkerIDs |-> IF p \in got THEN res[p].crdt ELSE crdt[p]]
         /\ status' = [p \in WorkerIDs |->
                         IF p \in got /\ res[p].outcome = "panic"
                         THEN "crashed" ELSE status[p]]
         /\ workers' = [workers EXCEPT ![w] = @ \ (visited \ answered)]
         /\ localOps' = [p \in WorkerIDs |->
                           IF p = w /\ hung = {} THEN <<>>
                           ELSE IF p \in got THEN res[p].localOps
                           ELSE localOps[p]]
         /\ stuck' = IF hung = {} THEN stuck
                     ELSE [stuck EXCEPT ![w] = @ \cup {"push"}]
         /\ trace' = <<[kind |-> "sendLocalOps", w |-> w, batch |-> localOps[w],
                        peers |-> workers[w], answered |-> got]>>
                     \o EventsOf(got, res)
         /\ delivered' = Deliver(trace', crdt')
    /\ UNCHANGED <<nAdd, nGet, inFlight>>

\* ---------------------------------------------------------- specification
\* The steps of a deployment in which any call over the network can fail:
\* the workers in P are started, their console users open sessions drawn
\* from S and insert characters drawn from T; at most maxIns local inserts
\* and maxGet getSession commands are made.
NextOver(P, S, T, maxIns, maxGet) ==
    \/ \E w \in P : registerWithLB(w)
    \/ \E w \in P : \E answered \in SUBSET LivePeers(w) :
       \E addrSet \in SUBSET Registered(w) :
       \E fwd \in SUBSET Dialable(answered, addrSet) :
       \E called \in SUBSET fwd : \E back \in SUBSET called :
         getWorkers(w, answered, addrSet, fwd, called, back)
    \/ \E w \in P, s \in S : newSession(w, s)
    \/ \E w \in P, s \in S : \E src \in Suppliers(w, s) \cup {0} :
         nGet < maxGet /\ getSession(w, s, src)
    \/ \E w \in P, s \in S, c \in T : \E p \in PrevChoices(w, s) :
         nAdd < maxIns /\ addRight(w, p, c, s)
    \/ \E w \in P : \E answered \in SUBSET LivePeers(w) : sendLocalOps(w, answered)

\* Two workers, one session, two characters.
Next == NextOver({1, 2}, {"s1"}, Texts, MaxInserts, MaxGets)

Spec == Init /\ [][Next]_vars

\* Two workers, two sessions, one character.
NextSessions == NextOver({1, 2}, Sessions, {"a"}, MaxInserts, MaxGets)

SpecSessions == Init /\ [][NextSessions]_vars

\* Two workers, one session, one character, one more getSession command.
NextFetch == NextOver({1, 2}, {"s1"}, {"a"}, MaxInserts, MaxGetsFetch)

SpecFetch == Init /\ [][NextFetch]_vars

\* Three workers, one session, one character, one insert.
NextMesh == NextOver(WorkerIDs, {"s1"}, {"a"}, MaxInsertsMesh, MaxGets)

SpecMesh == Init /\ [][NextMesh]_vars

\* Three workers of which worker 1 opens the session, types and pushes, and
\* workers 2 and 3 fetch the session and serve the batches of worker 1.
NextRelay ==
    \/ \E w \in WorkerIDs : registerWithLB(w)
    \/ \E w \in WorkerIDs : \E answered \in SUBSET LivePeers(w) :
       \E addrSet \in SUBSET Registered(w) :
       \E fwd \in SUBSET Dialable(answered, addrSet) :
       \E called \in SUBSET fwd : \E back \in SUBSET called :
         getWorkers(w, answered, addrSet, fwd, called, back)
    \/ newSession(1, "s1")
    \/ \E w \in {2, 3} : \E src \in Suppliers(w, "s1") \cup {0} :
         nGet < MaxGetsRelay /\ getSession(w, "s1", src)
    \/ \E p \in PrevChoices(1, "s1") :
         nAdd < MaxInsertsRelay /\ addRight(1, p, "a", "s1")
    \/ \E answered \in SUBSET LivePeers(1) : sendLocalOps(1, answered)

SpecRelay == Init /\ [][NextRelay]_vars

\* ------------------------------------------------------------ inbound RPC
\* The identifiers, client identifiers and characters of the operations a
\* caller of the ApplyIncomingOps RPC sends.
MergeIDs == {<<1, 1>>, <<1, 2>>, <<2, 1>>}
MergeClients == {<<1>>, <<2>>}
MergeText(id) == IF id = <<1, 1>> THEN "a" ELSE IF id = <<1, 2>> THEN "b" ELSE "c"

\* The operations of session s a caller can send: any identifier from any
\* client, with the sentinel or another identifier as reference.
MergeOps(s) ==
    {Element(s, cl, id, p, <<>>, MergeText(id)) :
        cl \in MergeClients, id \in MergeIDs, p \in MergeIDs \cup {INITIAL_ID}}

\* The batches of one or two operations.
MergeBatches(s) ==
    {<<a>> : a \in MergeOps(s)} \cup {<<a, b>> : a \in MergeOps(s), b \in MergeOps(s)}

\* The elements the batch can add to the documents m.
Room(m, s, maxElems) ==
    IF s \in DOMAIN m THEN maxElems - Cardinality(DOMAIN m[s].Elements) ELSE maxElems

\* A peer sends an identifier again only with the operation it stands for:
\* no two operations of the batch, and no operation of the batch and one
\* handed to the worker before, share the identifier and differ.
SameOpPerID(b, w, s) ==
    LET known == IF s \in DOMAIN delivered[w] THEN delivered[w][s].ops ELSE {}
        sent == {OpOf(b[i]) : i \in DOMAIN b}
    IN  \A x \in sent : \A y \in sent \cup known : x.ID = y.ID => x = y

\* The RPC server of worker w serves one ApplyIncomingOps call of a peer: the
\* handler runs to its end, to a panic that ends the process, or into a loop
\* that keeps its goroutine forever.
ServeApplyIncomingOps(w, incomingOps) ==
    /\ Alive(w)
    /\ \E r \in {ApplyIncomingOps(w, incomingOps)} :
         /\ crdt' = [crdt EXCEPT ![w] = r.crdt]
         /\ localOps' = [localOps EXCEPT ![w] = r.localOps]
         /\ status' = IF r.outcome = "panic"
                      THEN [status EXCEPT ![w] = "crashed"] ELSE status
         /\ stuck' = IF r.outcome = "hang"
                     THEN [stuck EXCEPT ![w] = @ \cup {"rpc"}] ELSE stuck
         /\ trace' = r.events
         /\ delivered' = Deliver(trace', crdt')
    /\ UNCHANGED <<workers, nAdd, nGet, inFlight>>

\* One worker that opens a session and serves the batches of its peers.
NextMerge ==
    \/ registerWithLB(1)
    \/ getWorkers(1, {}, {}, {}, {}, {})
    \/ newSession(1, "s1")
    \/ \E b \in MergeBatches("s1") :
         /\ Len(b) <= Room(crdt[1], "s1", MaxMergeElems)
         /\ SameOpPerID(b, 1, "s1")
         /\ ServeApplyIncomingOps(1, b)

SpecMerge == Init /\ [][NextMerge]_vars

\* ------------------------------------------------------------ goroutines
\* The handlers take no lock: the push loop, the console and every RPC call
\* run in goroutines of their own and their statements interleave.  The
\* steps below cut sendLocalOps and ApplyIncomingOps where another goroutine
\* can run in between.

\* sendLocalOps up to the capture of the batch: request.Payload[0] =
\* w.localOps.
sendLocalOpsCapture(w) ==
    /\ status[w] = "running"
    /\ "push" \notin stuck[w]
    /\ inFlight[w].cycle = <<>>
    /\ inFlight' = [inFlight EXCEPT ![w].cycle = <<localOps[w]>>]
    /\ trace' = <<[kind |-> "sendLocalOpsCapture", w |-> w, batch |-> localOps[w]]>>
    /\ UNCHANGED <<status, workers, crdt, localOps, stuck, nAdd, nGet, delivered>>

\* sendLocalOps from the captured batch on: the probes, the calls, and
\* w.localOps = nil at the end of the cycle.
sendLocalOpsFinish(w, answered) ==
    /\ status[w] = "running"
    /\ "push" \notin stuck[w]
    /\ inFlight[w].cycle # <<>>
    /\ answered \subseteq LivePeers(w)
    /\ \E batch \in {inFlight[w].cycle[1]} :
       \E res \in {[p \in answered |-> ApplyIncomingOps(p, batch)]} :
       \E hung \in {{p \in answered : res[p].outcome = "hang"}} :
       \E h \in IF hung = {} THEN {0} ELSE hung :
       \E visited \in IF hung = {} THEN {workers[w]} ELSE SUBSET (workers[w] \ hung) :
       \E got \in {(visited \cap answered) \cup (hung \cap {h})} :
         /\ crdt' = [p \in WorkerIDs |-> IF p \in got THEN res[p].crdt ELSE crdt[p]]
         /\ status' = [p \in WorkerIDs |->
                         IF p \in got /\ res[p].outcome = "panic"
                         THEN "crashed" ELSE status[p]]
         /\ workers' = [workers EXCEPT ![w] = @ \ (visited \ answered)]
         /\ localOps' = [p \in WorkerIDs |->
                           IF p = w /\ hung = {} THEN <<>>
                           ELSE IF p \in got THEN res[p].localOps
                           ELSE localOps[p]]
         /\ stuck' = IF hung = {} THEN stuck
                     ELSE [stuck EXCEPT ![w] = @ \cup {"push"}]
         /\ inFlight' = IF hung = {} THEN [inFlight EXCEPT ![w].cycle = <<>>]
                        ELSE inFlight
         /\ trace' = <<[kind |-> "sendLocalOpsFinish", w |-> w, batch |-> batch,
                        cleared |-> localOps[w], done |-> hung = {},
                        peers |-> workers[w], answered |-> got]>>
                     \o EventsOf(got, res)
         /\ delivered' = Deliver(trace', crdt')
    /\ UNCHANGED <<nAdd, nGet>>

\* ApplyIncomingOps of a call with the one operation op, up to the test
\* crdt.Elements[op.ID] == nil, which it passes.
ApplyIncomingOpsTest(w, op) ==
    /\ Alive(w)
    /\ op.SessionID \in DOMAIN crdt[w]
    /\ op.ID \notin DOMAIN crdt[w][op.SessionID].Elements
    /\ inFlight' = [inFlight EXCEPT ![w].checked = Append(@, op)]
    /\ trace' = <<[kind |-> "ApplyIncomingOpsTest", w |-> w, op |-> op]>>
    /\ UNCHANGED <<status, workers, crdt, localOps, stuck, nAdd, nGet, delivered>>

\* The sequence without its k-th element.
RemoveAt(seq, k) == SubSeq(seq, 1, k - 1) \o SubSeq(seq, k + 1, Len(seq))

\* The call that holds the k-th operation past the test goes on:
\* w.addToCRDT(&op, crdt), and the handler returns.
ApplyIncomingOpsAdd(w, k) ==
    /\ Alive(w)
    /\ k \in DOMAIN inFlight[w].checked
    /\ inFlight[w].checked[k].SessionID \in DOMAIN crdt[w]
    /\ \E op \in {inFlight[w].checked[k]} :
       \E r \in {ApplyAdd(w, op, crdt[w], localOps[w], <<>>,
                          addToCRDT(op, crdt[w][op.SessionID], localOps[w]))} :
         /\ crdt' = [crdt EXCEPT ![w] = r.crdt]
         /\ localOps' = [localOps EXCEPT ![w] = r.localOps]
         /\ status' = IF r.outcome = "panic"
                      THEN [status EXCEPT ![w] = "crashed"] ELSE status
         /\ stuck' = IF r.outcome = "hang"
                     THEN [stuck EXCEPT ![w] = @ \cup {"rpc"}] ELSE stuck
         /\ trace' = r.events
         /\ delivered' = Deliver(trace', crdt')
    /\ inFlight' = [inFlight EXCEPT ![w].checked = RemoveAt(@, k)]
    /\ UNCHANGED <<workers, nAdd, nGet>>

\* The operations the peers of worker 1 send it in SpecRace: the first insert
\* of worker 2, after the sentinel or after an insert of worker 1.
RaceOps(s) == {op \in MergeOps(s) : op.ClientID = <<2>> /\ op.ID = <<1, 2>>}

\* One worker whose console user types while its push loop runs and while
\* it serves the calls of its peers.
NextRace ==
    \/ registerWithLB(1)
    \/ getWorkers(1, {}, {}, {}, {}, {})
    \/ newSession(1, "s1")
    \/ \E p \in PrevChoices(1, "s1") :
         nAdd < MaxInsertsRace /\ addRight(1, p, "a", "s1")
    \/ sendLocalOpsCapture(1)
    \/ \E answered \in SUBSET LivePeers(1) : sendLocalOpsFinish(1, answered)
    \/ \E op \in RaceOps("s1") :
         /\ Len(inFlight[1].checked) < MaxCallsRace
         /\ Len(inFlight[1].checked) < Room(crdt[1], "s1", MaxMergeElems)
         /\ SameOpPerID(Append(inFlight[1].checked, op), 1, "s1")
         /\ ApplyIncomingOpsTest(1, op)
    \/ \E k \in DOMAIN inFlight[1].checked : ApplyIncomingOpsAdd(1, k)

SpecRace == Init /\ [][NextRace]_vars

\* One worker typing alone: three inserts at the places it knows.
NextChain == NextOver({1}, {"s1"}, Texts, MaxInsertsChain, MaxGets)

SpecChain == Init /\ [][NextChain]_vars

(***************************************************************************)
(* The life of the peer map.  main runs registerWithLB and getWorkers once *)
(* and then starts the push loop (worker.go:120-122), whose cycle begins   *)
(* every ten seconds for as long as the process lives; its call of         *)
(* getWorkers is commented out (worker.go:442).  No session is opened, so  *)
(* every batch is empty and no worker stops.                               *)
(***************************************************************************)
StartUp(w) ==
    \/ registerWithLB(w)
    \/ \E answered \in SUBSET LivePeers(w) :
       \E addrSet \in SUBSET Registered(w) :
       \E fwd \in SUBSET Dialable(answered, addrSet) :
       \E called \in SUBSET fwd : \E back \in SUBSET called :
         getWorkers(w, answered, addrSet, fwd, called, back)

PushLoop(w) == \E answered \in SUBSET LivePeers(w) : sendLocalOps(w, answered)

NextRefresh == \E w \in WorkerIDs : StartUp(w) \/ PushLoop(w)

\* main does not wait between its calls, and the loop of sendLocalOps wakes
\* after each sleep: neither stays enabled for ever without running.
SpecRefresh ==
    /\ Init
    /\ [][NextRefresh]_vars
    /\ \A w \in WorkerIDs : WF_vars(StartUp(w)) /\ WF_vars(PushLoop(w))

(***************************************************************************)
(* The identifiers of one worker.  The coordinator chooses the WorkerID    *)
(* that registerWithLB stores (worker.go:183); addRight concatenates the   *)
(* decimal digits of the session's NextOpNumber and of that WorkerID       *)
(* (worker.go:322).  One worker of MintWorkerIDs registers, opens a        *)
(* session and types at the start of the text until the counter reaches    *)
(* MaxInsertsMint.                                                         *)
(***************************************************************************)
MintWorkerIDs == {5, 45, 345, 2345}

InitMint ==
    /\ status = [w \in WorkerIDs \cup MintWorkerIDs |-> "new"]
    /\ workers = [w \in WorkerIDs \cup MintWorkerIDs |-> {}]
    /\ crdt = [w \in WorkerIDs \cup MintWorkerIDs |-> <<>>]
    /\ localOps = [w \in WorkerIDs \cup MintWorkerIDs |-> <<>>]
    /\ stuck = [w \in WorkerIDs \cup MintWorkerIDs |-> {}]
    /\ nAdd = 0
    /\ nGet = 0
    /\ trace = <<>>
    /\ delivered = [w \in WorkerIDs \cup MintWorkerIDs |-> <<>>]
    /\ inFlight = [w \in WorkerIDs \cup MintWorkerIDs |->
                      [cycle |-> <<>>, checked |-> <<>>]]

NextMint ==
    \/ \E w \in MintWorkerIDs :
         /\ \A v \in MintWorkerIDs : status[v] = "new"
         /\ registerWithLB(w)
    \/ \E w \in MintWorkerIDs : getWorkers(w, {}, {}, {}, {}, {})
    \/ \E w \in MintWorkerIDs : ~Holds(w, "s1") /\ newSession(w, "s1")
    \/ \E w \in MintWorkerIDs :
         nAdd < MaxInsertsMint /\ addRight(w, INITIAL_ID, "a", "s1")

SpecMint == InitMint /\ [][NextMint]_vars

\* ------------------------------------------------------------- properties
\* The records of the last handler that hand an operation to a replica.
OpEvents == {i \in DOMAIN trace : trace[i].kind = "op"}

\* The records of the last handler that are ApplyIncomingOps calls.
CallEvents == {i \in DOMAIN trace : trace[i].kind = "ApplyIncomingOps"}

\* The last handler was an addRight command.
IsAddRight == trace # <<>> /\ trace[1].kind = "addRight"

\* C1 (convergence): two running replicas of a session that started from the
\* same document and were handed the same set of inserts show the same text.
C1_Convergence ==
    \A v \in WorkerIDs, w \in WorkerIDs :
        \A s \in (DOMAIN crdt[v]) \cap (DOMAIN crdt[w]) :
            (Alive(v) /\ Alive(w) /\ delivered[v][s] = delivered[w][s])
                => getMessage(crdt[v][s]) = getMessage(crdt[w][s])

\* Every operation of the batch is one of a session held in m whose
\* identifier is a key of that session's document.
AllPresent(batch, m) ==
    /\ batch # <<>>
    /\ \A i \in DOMAIN batch :
          /\ batch[i].SessionID \in DOMAIN m
          /\ batch[i].ID \in DOMAIN m[batch[i].SessionID].Elements

\* C2 (idempotence of merge): ApplyIncomingOps with an insert whose identifier
\* the document already holds leaves the document as it was: elements, links,
\* first identifier and counter; a batch of such inserts leaves all documents
\* of the worker as they were.
C2_Idempotence ==
    /\ \A i \in OpEvents :
          (/\ trace[i].via = "ApplyIncomingOps" /\ trace[i].held
           /\ trace[i].op.ID \in DOMAIN trace[i].pre.Elements)
              => trace[i].post = trace[i].pre
    /\ \A i \in CallEvents :
          AllPresent(trace[i].batch, trace[i].preCrdt)
              => /\ trace[i].outcome = "ok"
                 /\ trace[i].postCrdt = trace[i].preCrdt
                 /\ crdt[trace[i].w] = trace[i].preCrdt

\* A worker has just been sent a batch of inserts it already holds.
C2_Witness ==
    \E i \in CallEvents :
        /\ AllPresent(trace[i].batch, trace[i].preCrdt)
        /\ \E j \in OpEvents : trace[j].w = trace[i].w /\ trace[j].result = "skipped"

\* C5 (sentinel-anchor replacement): an insert Y at the sentinel, applied by
\* addRight or by the merge to a document whose first element is X and that
\* does not hold Y yet, makes Y the first element, links Y to X and X back to
\* Y, and changes no other link of any element.
C5_SentinelReplacement ==
    \A i \in OpEvents :
        LET e == trace[i]
            X == e.pre.CrdtFirstID
            Y == e.op.ID
        IN  (/\ e.held /\ e.op.PrevID = INITIAL_ID
             /\ X \in DOMAIN e.pre.Elements
             /\ Y \notin DOMAIN e.pre.Elements)
                => /\ e.result = "ok"
                   /\ e.post.CrdtFirstID = Y
                   /\ DOMAIN e.post.Elements = (DOMAIN e.pre.Elements) \cup {Y}
                   /\ e.post.Elements[Y].NextID = X
                   /\ e.post.Elements[Y].PrevID = INITIAL_ID
                   /\ e.post.Elements[X] = [e.pre.Elements[X] EXCEPT !.PrevID = Y]
                   /\ \A k \in (DOMAIN e.pre.Elements) \ {X} :
                         e.post.Elements[k] = e.pre.Elements[k]

\* An insert at the sentinel has just been merged into a document of two
\* elements.
C5_Witness ==
    \E i \in OpEvents :
        /\ trace[i].via = "ApplyIncomingOps" /\ trace[i].held
        /\ trace[i].op.PrevID = INITIAL_ID
        /\ Cardinality(DOMAIN trace[i].pre.Elements) >= 1
        /\ trace[i].result = "ok"
        /\ Cardinality(DOMAIN trace[i].post.Elements) >= 2

\* The document holds the one element el, stored as given, and names it first.
Bootstrapped(doc, el) ==
    /\ DOMAIN doc.Elements = {el.ID}
    /\ doc.Elements[el.ID] = el
    /\ doc.CrdtFirstID = el.ID

\* The session documents of the model that hold no element.
EmptyDocs ==
    UNION {{crdt[w][s] : s \in {x \in DOMAIN crdt[w] : DOMAIN crdt[w][x].Elements = {}}} :
           w \in WorkerIDs}

\* C6 as stated (empty-document bootstrap): an insert into a session whose
\* document holds no element, typed at the console or merged, is stored and
\* becomes the first element whatever reference it names.
C6_BootstrapAnyReference ==
    /\ \A i \in OpEvents :
          (trace[i].held /\ DOMAIN trace[i].pre.Elements = {})
              => trace[i].result = "ok" /\ Bootstrapped(trace[i].post, trace[i].op)
    /\ IsAddRight =>
          LET e == trace[1]
          IN  (e.held /\ DOMAIN e.preCrdt[e.sessionID].Elements = {})
                 => /\ e.result = "ok"
                    /\ Cardinality(DOMAIN crdt[e.w][e.sessionID].Elements) = 1
                    /\ crdt[e.w][e.sessionID].CrdtFirstID
                           \in DOMAIN crdt[e.w][e.sessionID].Elements

\* C6 amended: a merged insert is stored in an empty document and becomes
\* its first element whatever reference it names; an insert typed at the
\* console does so when it names the sentinel, and is rejected, the document
\* staying empty, when it names anything else.
C6_Bootstrap ==
    /\ \A i \in OpEvents :
          (trace[i].held /\ DOMAIN trace[i].pre.Elements = {})
              => trace[i].result = "ok" /\ Bootstrapped(trace[i].post, trace[i].op)
    /\ \A doc \in EmptyDocs :
          \A op \in MergeOps("s1") :
              /\ addToCRDT(op, doc, <<>>).outcome = "ok"
              /\ Bootstrapped(addToCRDT(op, doc, <<>>).crdt, op)
    /\ IsAddRight =>
          LET e == trace[1]
          IN  (e.held /\ DOMAIN e.preCrdt[e.sessionID].Elements = {})
                 => IF e.prevID = INITIAL_ID
                    THEN /\ e.result = "ok"
                         /\ Cardinality(DOMAIN crdt[e.w][e.sessionID].Elements) = 1
                         /\ crdt[e.w][e.sessionID].CrdtFirstID
                                \in DOMAIN crdt[e.w][e.sessionID].Elements
                    ELSE /\ e.result = "rejected"
                         /\ crdt[e.w] = e.preCrdt

\* A batch has just put the first element into a replica's empty document.
C6_Witness ==
    \E i \in OpEvents :
        /\ trace[i].via = "ApplyIncomingOps" /\ trace[i].held
        /\ DOMAIN trace[i].pre.Elements = {}
        /\ Bootstrapped(trace[i].post, trace[i].op)
        /\ crdt[trace[i].w][trace[i].op.SessionID].CrdtFirstID = trace[i].op.ID

\* C7 (unknown reference, local path): addRight with a reference that is
\* neither a key of the session's document nor the sentinel, or with a
\* session the worker does not hold, changes neither the worker's documents
\* nor localOps.
C7_LocalRejection ==
    IsAddRight =>
        LET e == trace[1]
        IN  (\/ e.sessionID \notin DOMAIN e.preCrdt
             \/ /\ e.prevID \notin DOMAIN e.preCrdt[e.sessionID].Elements
                /\ e.prevID # INITIAL_ID)
               => /\ e.result = "rejected"
                  /\ crdt[e.w] = e.preCrdt
                  /\ localOps[e.w] = e.preOps
                  /\ Alive(e.w)

\* addRight with an unknown reference has just been tried on a document that
\* holds an element, with an edit waiting in localOps.
C7_Witness ==
    /\ IsAddRight
    /\ trace[1].held
    /\ trace[1].prevID \in UnknownRefs
    /\ DOMAIN trace[1].preCrdt[trace[1].sessionID].Elements # {}
    /\ trace[1].preOps # <<>>
    /\ trace[1].result = "rejected"

\* The operation of record e is a new one that names as reference an
\* element A of the document, and A's successor is the element x.
AfterAnchor(e, A, x) ==
    /\ e.held
    /\ e.op.ID \notin DOMAIN e.pre.Elements
    /\ A = e.op.PrevID
    /\ A \in DOMAIN e.pre.Elements
    /\ x = e.pre.Elements[A].NextID

\* The larger and the smaller of two identifiers, compared as numbers.
HigherID(a, b) == IF Atoi(a) > Atoi(b) THEN a ELSE b
LowerID(a, b) == IF Atoi(a) > Atoi(b) THEN b ELSE a

\* C3 (same-position tie-break): an insert that names an element A without
\* successor becomes A's successor and the last element; a second insert
\* that names A, from another client and with another numeric identifier,
\* leaves the one with the larger identifier directly after A and the one
\* with the smaller identifier directly after that one, as the last element,
\* whichever of the two was applied first.
C3_TieBreak ==
    \A i \in OpEvents :
        LET e == trace[i]
            y == e.op.ID
        IN  \A A \in DOMAIN e.pre.Elements :
                /\ AfterAnchor(e, A, <<>>)
                      => /\ e.result = "ok"
                         /\ e.post.Elements[A].NextID = y
                         /\ e.post.Elements[y].NextID = <<>>
                         /\ e.post.Elements[y].PrevID = A
                /\ \A x \in DOMAIN e.pre.Elements :
                      (/\ AfterAnchor(e, A, x)
                       /\ e.pre.Elements[x].PrevID = A
                       /\ e.pre.Elements[x].NextID = <<>>
                       /\ e.pre.Elements[x].ClientID # e.op.ClientID
                       /\ Atoi(x) # Atoi(y))
                          => /\ e.result = "ok"
                             /\ e.post.Elements[A].NextID = HigherID(x, y)
                             /\ e.post.Elements[HigherID(x, y)].NextID = LowerID(x, y)
                             /\ e.post.Elements[LowerID(x, y)].NextID = <<>>
                             /\ e.post.Elements[x].PrevID = A
                             /\ e.post.Elements[y].PrevID = A

\* The scenario of the specification: 11:a first, 12:b after 11 by client 1
\* already applied, 21:c after 11 by client 2 applied now; the worker shows
\* "acb".
C3_Witness ==
    \E i \in OpEvents :
        /\ AfterAnchor(trace[i], <<1, 1>>, <<1, 2>>)
        /\ trace[i].pre.CrdtFirstID = <<1, 1>>
        /\ trace[i].pre.Elements[<<1, 2>>].ClientID = <<1>>
        /\ trace[i].pre.Elements[<<1, 2>>].PrevID = <<1, 1>>
        /\ trace[i].pre.Elements[<<1, 2>>].NextID = <<>>
        /\ trace[i].op.ID = <<2, 1>> /\ trace[i].op.ClientID = <<2>>
        /\ "s1" \in DOMAIN crdt[trace[i].w]
        /\ crdt[trace[i].w]["s1"] = trace[i].post
        /\ getMessage(crdt[trace[i].w]["s1"]).text = <<"a", "c", "b">>

\* C4 (same-worker non-reordering): an insert that names an element A whose
\* successor x names A too and is of the same client becomes A's successor
\* with x directly after it, whatever the numeric order of the two
\* identifiers; nothing else changes.
C4_SameClientOrder ==
    \A i \in OpEvents :
        LET e == trace[i]
            y == e.op.ID
        IN  \A A \in DOMAIN e.pre.Elements : \A x \in DOMAIN e.pre.Elements :
                (/\ AfterAnchor(e, A, x)
                 /\ e.pre.Elements[x].PrevID = A
                 /\ e.pre.Elements[x].ClientID = e.op.ClientID)
                    => /\ e.result = "ok"
                       /\ e.post.Elements[A] = [e.pre.Elements[A] EXCEPT !.NextID = y]
                       /\ e.post.Elements[y].NextID = x
                       /\ e.post.Elements[y].PrevID = A
                       /\ \A k \in (DOMAIN e.pre.Elements) \ {A} :
                             e.post.Elements[k] = e.pre.Elements[k]

\* An insert has just been applied after an anchor whose successor is of the
\* same client and has the larger numeric identifier.
C4_Witness ==
    \E i \in OpEvents :
        \E A \in DOMAIN trace[i].pre.Elements : \E x \in DOMAIN trace[i].pre.Elements :
            /\ AfterAnchor(trace[i], A, x)
            /\ trace[i].pre.Elements[x].PrevID = A
            /\ trace[i].pre.Elements[x].ClientID = trace[i].op.ClientID
            /\ Atoi(x) > Atoi(trace[i].op.ID)
            /\ trace[i].result = "ok"
            /\ trace[i].post.Elements[A].NextID = trace[i].op.ID

\* C8 (unknown reference, merge path): a new operation of a batch that names
\* a reference which is neither a key of the held, non-empty document nor the
\* sentinel leaves the document as it was, the worker keeps running, and
\* every operation of the batch is gone through.
C8_MergeRejection ==
    \A i \in OpEvents :
        LET e == trace[i]
        IN  (/\ e.via = "ApplyIncomingOps" /\ e.held
             /\ DOMAIN e.pre.Elements # {}
             /\ e.op.ID \notin DOMAIN e.pre.Elements
             /\ e.op.PrevID \notin DOMAIN e.pre.Elements
             /\ e.op.PrevID # INITIAL_ID)
                => /\ e.post = e.pre
                   /\ Alive(e.w)
                   /\ \A c \in CallEvents :
                         trace[c].w = e.w
                            => /\ trace[c].outcome = "ok"
                               /\ Cardinality({j \in OpEvents : trace[j].w = e.w})
                                      = Len(trace[c].batch)

\* The sessions the operations of a batch name.
SessionsOf(batch) == {batch[k].SessionID : k \in DOMAIN batch}

\* C9 (unknown session on merge): an operation of a batch for a session the
\* worker does not hold is passed over; the call opens no document, and
\* every document held that no operation of the batch names is as it was.
C9_UnknownSession ==
    \A c \in CallEvents :
        LET e == trace[c]
        IN  /\ DOMAIN e.postCrdt = DOMAIN e.preCrdt
            /\ DOMAIN crdt[e.w] = DOMAIN e.preCrdt
            /\ \A s \in (DOMAIN e.preCrdt) \ SessionsOf(e.batch) :
                  e.postCrdt[s] = e.preCrdt[s] /\ crdt[e.w][s] = e.preCrdt[s]
            /\ \A i \in OpEvents :
                  (trace[i].w = e.w /\ trace[i].op.SessionID \notin DOMAIN e.preCrdt)
                      => /\ trace[i].result = "nosession"
                         /\ trace[i].op.SessionID \notin DOMAIN crdt[e.w]

\* A worker that holds a document with an element has just been sent a batch
\* for a session it does not hold.
C9_Witness ==
    \E c \in CallEvents :
        /\ trace[c].batch # <<>>
        /\ SessionsOf(trace[c].batch) \cap DOMAIN trace[c].preCrdt = {}
        /\ \E s \in DOMAIN trace[c].preCrdt : DOMAIN trace[c].preCrdt[s].Elements # {}
        /\ crdt[trace[c].w] = trace[c].preCrdt

\* The last handler was getWorkers that went on to connectToWorkers.
IsConnect == trace # <<>> /\ trace[1].kind = "connectToWorkers"

\* C10 (bidirectional mesh edges): after connectToWorkers of worker P, every
\* worker Q that P dialed and whose BidirectionalSetup dialed P back holds P,
\* and P holds Q; every worker Q whose dial back failed does not hold P.
C10_BidirectionalEdges ==
    IsConnect =>
        LET e == trace[1]
        IN  /\ \A q \in e.back : q \in workers[e.w] /\ e.w \in workers[q]
            /\ \A q \in e.fwd : q \in workers[e.w]
            /\ \A q \in e.called \ e.back : e.w \notin workers[q]

\* A worker has just connected to a peer that dialed it back.
C10_Witness ==
    /\ IsConnect
    /\ \E q \in trace[1].back : q \in workers[trace[1].w] /\ trace[1].w \in workers[q]

\* The last handler was a getSession command.
IsGetSession == trace # <<>> /\ trace[1].kind = "getSession"

\* The running peers of worker w that hold session s.
Holders(w, s) == {p \in LivePeers(w) \ {w} : s \in DOMAIN crdt[p]}

\* C11 (session bootstrap): getSession installs the document of a peer that
\* holds the session, as that peer holds it, in place of whatever the worker
\* held for the session, and leaves the worker's other sessions alone; when
\* no call comes back without error, and so when no peer holds the session
\* or there is no peer, the worker's documents are as they were.
C11_SessionBootstrap ==
    IsGetSession =>
        LET e == trace[1]
        IN  /\ Holders(e.w, e.sessionID) = {} => e.src = 0
            /\ e.src = 0 => crdt[e.w] = e.preCrdt
            /\ e.src # 0 =>
                  /\ e.src \in Holders(e.w, e.sessionID)
                  /\ crdt[e.w][e.sessionID] = crdt[e.src][e.sessionID]
                  /\ DOMAIN crdt[e.w] = (DOMAIN e.preCrdt) \cup {e.sessionID}
                  /\ \A s \in (DOMAIN e.preCrdt) \ {e.sessionID} :
                        crdt[e.w][s] = e.preCrdt[s]

\* getSession has just replaced a document the worker held by the different
\* document of a peer.
C11_Witness ==
    /\ IsGetSession
    /\ trace[1].src # 0
    /\ trace[1].sessionID \in DOMAIN trace[1].preCrdt
    /\ trace[1].preCrdt[trace[1].sessionID] # crdt[trace[1].src][trace[1].sessionID]
    /\ crdt[trace[1].w][trace[1].sessionID] = crdt[trace[1].src][trace[1].sessionID]

\* The last handler was a cycle of sendLocalOps that came to its end.
IsPushCycle ==
    /\ trace # <<>> /\ trace[1].kind = "sendLocalOps"
    /\ "push" \notin stuck[trace[1].w]

\* The ApplyIncomingOps calls worker p served in the last handler.
CallsOn(p) == {c \in CallEvents : trace[c].w = p}

\* C12 (push-cycle pruning and fan-out): after a cycle of sendLocalOps the
\* peer map holds the peers that answered the probe and no peer that did
\* not; a peer that did not answer was sent nothing; every peer that
\* answered was sent one batch, the buffer as it was when the cycle began.
C12_PruneAndFanOut ==
    IsPushCycle =>
        LET e == trace[1]
        IN  /\ e.answered \subseteq e.peers
            /\ workers[e.w] = e.answered
            /\ \A p \in WorkerIDs \ e.answered : CallsOn(p) = {}
            /\ \A p \in e.answered :
                  /\ Cardinality(CallsOn(p)) = 1
                  /\ \A c \in CallsOn(p) : trace[c].batch = e.batch

\* A cycle has just sent a batch of one operation to two peers.
C12_Witness ==
    /\ IsPushCycle
    /\ trace[1].batch # <<>>
    /\ Cardinality(trace[1].answered) = 2
    /\ \A p \in trace[1].answered : \E c \in CallsOn(p) : trace[c].batch = trace[1].batch

\* The identifiers getMessage visits in document doc from id on, at most
\* fuel of them.
RECURSIVE WalkIDs(_, _, _)
WalkIDs(id, doc, fuel) ==
    IF id \notin DOMAIN doc.Elements \/ fuel = 0 THEN <<>>
    ELSE <<id>> \o WalkIDs(doc.Elements[id].NextID, doc, fuel - 1)

\* The walk of the document is finite, ends at an element without successor
\* and visits every stored element once; every link forward names a stored
\* element.
ChainOK(doc) ==
    LET n == Cardinality(DOMAIN doc.Elements)
        walk == WalkIDs(doc.CrdtFirstID, doc, n)
    IN  /\ \A k \in DOMAIN doc.Elements :
              doc.Elements[k].NextID \in (DOMAIN doc.Elements) \cup {<<>>}
        /\ n > 0 =>
              /\ Len(walk) = n
              /\ {walk[i] : i \in 1..Len(walk)} = DOMAIN doc.Elements
              /\ doc.Elements[walk[n]].NextID = <<>>

\* The documents of the workers whose process runs.
LiveDocs == UNION {{crdt[w][s] : s \in DOMAIN crdt[w]} : w \in {v \in WorkerIDs : Alive(v)}}

\* C13 (document chain invariant): in every document of a running worker the
\* walk from CrdtFirstID along NextID is finite, ends at an element whose
\* NextID is empty and visits every stored element exactly once, and every
\* non-empty NextID names a stored element.
C13_ChainInvariant == \A doc \in LiveDocs : ChainOK(doc)

\* An element of session s with identifier id is in the document map m or in
\* the buffer ops.
Known(id, s, m, ops) ==
    \/ s \in DOMAIN m /\ id \in DOMAIN m[s].Elements
    \/ \E k \in DOMAIN ops : ops[k].SessionID = s /\ ops[k].ID = id

\* C14 (identifier uniqueness): the identifier addRight mints for a local
\* insert is that of no element of the session minted before: none in the
\* worker's document or buffer as they were, none in the document or buffer
\* of another worker.
C14_UniqueIDs ==
    (IsAddRight /\ trace[1].result = "ok") =>
        LET e == trace[1]
            id == trace[2].op.ID
        IN  /\ ~Known(id, e.sessionID, e.preCrdt, e.preOps)
            /\ \A v \in WorkerIDs \ {e.w} :
                  ~Known(id, e.sessionID, crdt[v], localOps[v])

\* C15 (local edit buffer content): every element in a worker's localOps is
\* one that addRight made on that worker, so it carries the worker's own
\* client identifier; an operation merged by ApplyIncomingOps is not in the
\* buffer of the worker that merged it.
C15_LocalOpsContent ==
    /\ \A w \in WorkerIDs : \A k \in DOMAIN localOps[w] :
          localOps[w][k].ClientID = Itoa(w)
    /\ \A i \in OpEvents :
          (trace[i].via = "ApplyIncomingOps" /\ trace[i].result = "ok"
           /\ trace[i].op.ClientID # Itoa(trace[i].w))
              => \A k \in DOMAIN localOps[trace[i].w] :
                    localOps[trace[i].w][k].ID # trace[i].op.ID

\* C16 (no edit is lost by the drain): when a push cycle clears the buffer,
\* the buffer holds what the cycle captured as its batch and nothing else:
\* an element appended since the capture is not cleared with it.
C16_NoEditLost ==
    \A i \in DOMAIN trace :
        (trace[i].kind = "sendLocalOpsFinish" /\ trace[i].done)
            => trace[i].cleared = trace[i].batch

\* C17 (serialised access): the insert resolver is handed, by the merge,
\* only operations whose identifier the document does not hold, also when
\* two calls deliver the same operation at the same time, and the walk of
\* every document ends.
C17_Serialised ==
    /\ \A i \in OpEvents :
          (/\ trace[i].via = "ApplyIncomingOps" /\ trace[i].held
           /\ trace[i].result # "skipped")
              => trace[i].op.ID \notin DOMAIN trace[i].pre.Elements
    /\ \A doc \in LiveDocs : getMessage(doc).outcome = "ok"
\* C18 (the sentinel is never stored): no document of any worker has an
\* element whose identifier is INITIAL_ID, whatever the worker's WorkerID and
\* the session's counter were when addRight minted the identifier.
C18_SentinelNeverStored ==
    \A w \in DOMAIN crdt : \A s \in DOMAIN crdt[w] :
        INITIAL_ID \notin DOMAIN crdt[w][s].Elements

\* C19 (doubly linked consistency): in every document of a running worker,
\* the element named by a stored element's non-empty NextID has that element
\* as its PrevID, and the element at CrdtFirstID is the only one whose PrevID
\* names no stored element.
C19_DoublyLinked ==
    \A doc \in LiveDocs : \A id \in DOMAIN doc.Elements :
        /\ doc.Elements[id].NextID # <<>> =>
              /\ doc.Elements[id].NextID \in DOMAIN doc.Elements
              /\ doc.Elements[doc.Elements[id].NextID].PrevID = id
        /\ doc.Elements[id].PrevID \notin DOMAIN doc.Elements => id = doc.CrdtFirstID

\* Worker w has just ended a push cycle that deleted a peer and left fewer
\* than MinNumWorkerConnections of them.
PrunedBelow(w) ==
    /\ trace # <<>> /\ trace[1].kind = "sendLocalOps" /\ trace[1].w = w
    /\ status[w] = "running"
    /\ workers[w] # trace[1].peers
    /\ Cardinality(workers[w]) < MinNumWorkerConnections

\* Worker w has just run getWorkers.
Refreshed(w) ==
    /\ trace # <<>> /\ trace[1].kind \in {"getWorkers", "connectToWorkers"}
    /\ trace[1].w = w

\* C20 (minimum peer count is maintained): whenever a push cycle's pruning
\* leaves a worker with fewer peers than MinNumWorkerConnections, the worker
\* eventually runs getWorkers again, which asks the coordinator for addresses
\* and dials those it does not hold.
C20_MinimumPeers == \A w \in WorkerIDs : PrunedBelow(w) ~> Refreshed(w)

====
